---- MODULE Spec2Model ----
(***************************************************************************)
(* A model of the reactor-cpp runtime core: the Environment lifecycle      *)
(* (src/lib/environment.cc), the element registration of reactors          *)
(* (src/lib/reactor.cc), the declarations of reactions                     *)
(* (src/lib/reaction.cc) and the timer and shutdown actions                *)
(* (src/lib/action.cc).  Runtime validation is enabled                     *)
(* (REACTOR_CPP_VALIDATE) and assertions are compiled in.                  *)
(*                                                                         *)
(* Elements are identified by small integers that stand for their          *)
(* addresses; a std::set of pointers is iterated in ascending id order.    *)
(* Reactor::register_reaction inserts into `_reaction` while the rest of   *)
(* the class reads `_reactions`; the model treats them as the one member   *)
(* returned by Reactor::reactions().                                       *)
(***************************************************************************)
EXTENDS Integers, Sequences, FiniteSets, TLC

\* ---------------------------------------------------------------- bounds
MaxReactors == 2
MaxReactions == 2
MaxPorts == 2
MaxTimers == 2
MaxPriority == 2
MaxOffset == 1
MaxPeriod == 1
MaxTime == 1
MaxName == 2
MaxGraphReactions == 4
MaxEdges == 3
MaxNamedElements == 4
MaxActions == 2
MaxLogicalTime == 4
MaxDeadline == 2
MaxDeclElements == 6
MaxAsyncThreads == 2
MaxPhysicalTime == 4
MaxTriggers == 3

\* ---------------------------------------------------------------- state
VARIABLES
  phase,               \* Environment::_phase
  top_level_reactors,  \* Environment::_top_level_reactors
  reactorObjs,         \* every Reactor constructed: id -> [name, container]
  reactionObjs,        \* every Reaction: id -> [name, container, priority]
  portObjs,            \* every BasePort: id -> [name, container, is_input]
  timerObjs,           \* every Timer: id -> [name, container, offset, period]
  actionObjs,          \* every other BaseAction: id -> [name, container, kind]
  inward_binding,      \* BasePort::_inward_binding: port id -> port id or 0
  r_dependencies,      \* Reaction::_dependencies: reaction id -> set of ports
  r_port_triggers,     \* Reaction::_port_triggers
  r_antidependencies,  \* Reaction::_antidependencies
  p_antidependencies,  \* BasePort::_antidependencies: port id -> reactions
  r_action_triggers,   \* Reaction::_action_triggers: pairs <<reaction, action>>
  r_scheduable_actions,\* Reaction::_scheduable_actions: pairs <<reaction, action>>
  a_triggers,          \* BaseAction::_triggers: pairs <<action, reaction>>
  a_schedulers,        \* BaseAction::_schedulers: pairs <<action, reaction>>
  reactions,           \* Environment::reactions
  dependencies,        \* Environment::dependencies (vector of pairs)
  index,               \* Reaction::_index: reaction id -> level or NoIndex
  max_reaction_index,  \* Environment::_max_reaction_index, <<hi16, lo16>>
  dot_file,            \* edges written to /tmp/reactor_dependency_graph.dot
  start_time,          \* Environment::_start_time
  event_queue,         \* the scheduler's queue: set of [tag, action]
  scheduler,           \* "new", "running" or "stopped"
  lock_held,           \* the scheduler's queue mutex
  logical_time,        \* the scheduler's logical time, a tag <<time, microstep>>
  fire_log,            \* the events the scheduler has fired, in order
  hook_log,            \* the Reactor::startup / shutdown calls made, in order
  deadline,            \* Reaction::deadline of the reactions that have one
  run_log,             \* what each Reaction::trigger call has run, in order
  tpc,                 \* position of each concurrent thread inside a shutdown call
  shutdown_log,        \* the calls made on the scheduler on shutdown, in order
  pc,                  \* position of the calling thread inside an operation
  via_async,           \* the running sync_shutdown was entered by async_shutdown
  result               \* outcome of the last completed call

vars == <<phase, top_level_reactors, reactorObjs, reactionObjs, portObjs,
          timerObjs, actionObjs, inward_binding, r_dependencies,
          r_port_triggers, r_antidependencies, p_antidependencies,
          r_action_triggers, r_scheduable_actions, a_triggers, a_schedulers,
          reactions, dependencies, index, max_reaction_index, dot_file,
          start_time, event_queue, scheduler, lock_held, logical_time,
          fire_log, hook_log, deadline, run_log, tpc, shutdown_log, pc,
          via_async, result>>

topology == <<top_level_reactors, reactorObjs, reactionObjs, portObjs,
              timerObjs, actionObjs>>
action_edges == <<r_action_triggers, r_scheduable_actions, a_triggers,
                  a_schedulers>>
edges == <<inward_binding, r_dependencies, r_port_triggers,
           r_antidependencies, p_antidependencies, action_edges>>
graphvars == <<reactions, dependencies, index, max_reaction_index, dot_file>>
clock == <<logical_time, fire_log, hook_log>>
threads == <<tpc, shutdown_log>>
runvars == <<start_time, event_queue, scheduler, lock_held, clock, threads>>
dispatch == <<deadline, run_log>>

\* ---------------------------------------------------------------- phases
PhaseOrder == <<"Construction", "Assembly", "Startup", "Execution",
                "Shutdown", "Deconstruction">>

PhaseRank(p) == CHOOSE i \in 1..Len(PhaseOrder) : PhaseOrder[i] = p

NoIndex == -1
NoTime == -1
NoFile == <<"no file">>
NoDeadline == -1
Env == 0

\* the threads that call a shutdown: the scheduler's worker, which calls
\* sync_shutdown, and the threads that call async_shutdown
Worker == 0
Threads == {Worker} \cup (1..MaxAsyncThreads)

\* reactor::validate with kDoRuntimeValidation: TRUE when the call throws.
\* (assert.hh tests the condition under `if constexpr`; the model takes the
\* check to be the run-time test of the condition that its callers rely on.)
validate_throws(condition) == ~condition

\* ---------------------------------------------------------------- helpers
Min(S) == CHOOSE x \in S : \A y \in S : x <= y

RECURSIVE SortedSeq(_)
SortedSeq(S) == IF S = {} THEN <<>>
                ELSE <<Min(S)>> \o SortedSeq(S \ {Min(S)})

Range(s) == {s[i] : i \in DOMAIN s}

container_of_reactor(r) == reactorObjs[r].container

\* Reactor::reactors(), reactions(), the ports and the actions of a reactor
reactors_of(c) == {r \in DOMAIN reactorObjs : reactorObjs[r].container = c}
reactions_of(c) == {r \in DOMAIN reactionObjs : reactionObjs[r].container = c}
inputs_of(c) == {p \in DOMAIN portObjs :
                   portObjs[p].container = c /\ portObjs[p].is_input}
outputs_of(c) == {p \in DOMAIN portObjs :
                    portObjs[p].container = c /\ ~portObjs[p].is_input}
actions_of(c) == {t \in DOMAIN timerObjs : timerObjs[t].container = c}

\* the actions of a reactor that are no timers
other_actions_of(c) == {a \in DOMAIN actionObjs : actionObjs[a].container = c}

\* the names already inserted in each of the sets an owner keeps
names_reactors(c) == {reactorObjs[r].name : r \in reactors_of(c)}
names_reactions(c) == {reactionObjs[r].name : r \in reactions_of(c)}
names_inputs(c) == {portObjs[p].name : p \in inputs_of(c)}
names_outputs(c) == {portObjs[p].name : p \in outputs_of(c)}
names_actions(c) == {timerObjs[t].name : t \in actions_of(c)}
                      \cup {actionObjs[a].name : a \in other_actions_of(c)}

\* std::set::insert(...).second for the element sets of a container, which
\* hold one element per name
insert_second(names, n) == n \notin names

\* the names of programs without name clashes: one per element, by kind
reactor_name(i) == 100 + i
reaction_name(i) == 200 + i
port_name(i) == 300 + i
timer_name(i) == 400 + i
action_name(i) == 500 + i

\* the address of action a in the scheduler's queue, apart from the timers'
action_ref(a) == 1000 + a

Names == 1..MaxName

\* ---------------------------------------------------------------- Init
Init ==
  /\ phase = "Construction"
  /\ top_level_reactors = {}
  /\ reactorObjs = <<>>
  /\ reactionObjs = <<>>
  /\ portObjs = <<>>
  /\ timerObjs = <<>>
  /\ actionObjs = <<>>
  /\ inward_binding = <<>>
  /\ r_dependencies = <<>>
  /\ r_port_triggers = <<>>
  /\ r_antidependencies = <<>>
  /\ p_antidependencies = <<>>
  /\ r_action_triggers = {}
  /\ r_scheduable_actions = {}
  /\ a_triggers = {}
  /\ a_schedulers = {}
  /\ reactions = {}
  /\ dependencies = <<>>
  /\ index = <<>>
  /\ max_reaction_index = <<0, 0>>
  /\ dot_file = NoFile
  /\ start_time = NoTime
  /\ event_queue = {}
  /\ scheduler = "new"
  /\ lock_held = FALSE
  /\ logical_time = <<0, 0>>
  /\ fire_log = <<>>
  /\ hook_log = <<>>
  /\ deadline = <<>>
  /\ run_log = <<>>
  /\ tpc = [th \in Threads |-> "idle"]
  /\ shutdown_log = <<>>
  /\ pc = "idle"
  /\ via_async = FALSE
  /\ result = "none"

\* the caller is between two calls and the process has not been aborted
Callable == pc = "idle" /\ result # "abort"

Throw == /\ result' = "ValidationError"
         /\ UNCHANGED <<phase, topology, edges, graphvars, runvars, pc,
                        via_async, dispatch>>

Abort == /\ result' = "abort"
         /\ UNCHANGED <<phase, topology, edges, graphvars, runvars, pc,
                        via_async, dispatch>>

\* ---------------------------------------------------------------- phase gates
\* ReactorElement::ReactorElement: "can only be created during construction"
element_ctor_allowed(ph) == ph = "Construction"

\* Reactor::register_action / register_port / register_reaction /
\* register_reactor: "can only be registered during construction phase"
register_element_allowed(ph) == ph = "Construction"

\* Environment::register_reactor
register_reactor_allowed(ph) == ph = "Construction"

\* Environment::assemble
assemble_allowed(ph) == ph = "Construction"

\* a startup gate that only rules out the Construction phase
startup_allowed_after_construction(ph) == ph # "Construction"

\* Environment::startup
startup_allowed(ph) == ph = "Assembly"

\* a shutdown gate that lets a finished environment shut down again
sync_shutdown_allowed_again(ph) == ph \in {"Execution", "Deconstruction"}

\* Environment::sync_shutdown
sync_shutdown_allowed(ph) == ph = "Execution"

\* Reaction::declare_*: "may only be declared during assembly phase"
declare_allowed(ph) == ph = "Assembly"

\* ---------------------------------------------------------------- construction
\* Reactor::Reactor(name, environment): the element constructor, then
\* Environment::register_reactor(this)
NewTopLevelReactor(n) ==
  /\ Callable
  /\ phase # "Construction" \/ Len(reactorObjs) < MaxReactors
  /\ IF validate_throws(element_ctor_allowed(phase)) THEN Throw
     ELSE IF validate_throws(register_reactor_allowed(phase)) THEN Throw
     ELSE IF ~insert_second(names_reactors(Env), n) THEN Abort
     ELSE /\ reactorObjs' = Append(reactorObjs, [name |-> n, container |-> Env])
          /\ top_level_reactors' = top_level_reactors \cup {Len(reactorObjs) + 1}
          /\ result' = "ok"
          /\ UNCHANGED <<phase, reactionObjs, portObjs, timerObjs, actionObjs, edges,
                         graphvars, runvars, pc, via_async, dispatch>>

\* Environment::register_reactor called on a reactor that already exists
register_reactor(r) ==
  /\ Callable
  /\ r \in DOMAIN reactorObjs
  /\ IF validate_throws(register_reactor_allowed(phase)) THEN Throw
     ELSE IF validate_throws(reactorObjs[r].container = Env) THEN Throw
     ELSE IF r \in top_level_reactors THEN Abort
     ELSE /\ top_level_reactors' = top_level_reactors \cup {r}
          /\ result' = "ok"
          /\ UNCHANGED <<phase, reactorObjs, reactionObjs, portObjs, timerObjs, actionObjs,
                         edges, graphvars, runvars, pc, via_async, dispatch>>

\* Reactor::Reactor(name, container): element constructor, which calls
\* container->register_reactor(this)
NewNestedReactor(n, c) ==
  /\ Callable
  /\ c \in DOMAIN reactorObjs
  /\ phase # "Construction" \/ Len(reactorObjs) < MaxReactors
  /\ IF validate_throws(element_ctor_allowed(phase)) THEN Throw
     ELSE IF validate_throws(register_element_allowed(phase)) THEN Throw
     ELSE IF ~insert_second(names_reactors(c), n) THEN Abort
     ELSE /\ reactorObjs' = Append(reactorObjs, [name |-> n, container |-> c])
          /\ result' = "ok"
          /\ UNCHANGED <<phase, top_level_reactors, reactionObjs, portObjs,
                         timerObjs, actionObjs, edges, graphvars, runvars, pc, via_async, dispatch>>

\* Reaction::Reaction(name, priority, container, body); priority is not 0
NewReaction(n, c, prio) ==
  /\ Callable
  /\ c \in DOMAIN reactorObjs
  /\ phase # "Construction" \/ Len(reactionObjs) < MaxReactions
  /\ IF validate_throws(element_ctor_allowed(phase)) THEN Throw
     ELSE IF validate_throws(register_element_allowed(phase)) THEN Throw
     ELSE IF ~insert_second(names_reactions(c), n) THEN Abort
     ELSE /\ reactionObjs' = Append(reactionObjs,
                 [name |-> n, container |-> c, priority |-> prio])
          /\ r_dependencies' = Append(r_dependencies, {})
          /\ r_port_triggers' = Append(r_port_triggers, {})
          /\ r_antidependencies' = Append(r_antidependencies, {})
          /\ index' = Append(index, NoIndex)
          /\ result' = "ok"
          /\ UNCHANGED <<phase, top_level_reactors, reactorObjs, portObjs,
                         timerObjs, actionObjs, inward_binding, p_antidependencies, action_edges,
                         reactions, dependencies, max_reaction_index, dot_file,
                         runvars, pc, via_async, dispatch>>

\* a port constructor: the element constructor calls register_port, which
\* inserts into _inputs or _outputs
NewPort(n, c, is_input) ==
  /\ Callable
  /\ c \in DOMAIN reactorObjs
  /\ phase # "Construction" \/ Len(portObjs) < MaxPorts
  /\ IF validate_throws(element_ctor_allowed(phase)) THEN Throw
     ELSE IF validate_throws(register_element_allowed(phase)) THEN Throw
     ELSE IF ~insert_second(IF is_input THEN names_inputs(c)
                                         ELSE names_outputs(c), n) THEN Abort
     ELSE /\ portObjs' = Append(portObjs,
                 [name |-> n, container |-> c, is_input |-> is_input])
          /\ inward_binding' = Append(inward_binding, 0)
          /\ p_antidependencies' = Append(p_antidependencies, {})
          /\ result' = "ok"
          /\ UNCHANGED <<phase, top_level_reactors, reactorObjs, reactionObjs,
                         timerObjs, actionObjs, r_dependencies, r_port_triggers,
                         r_antidependencies, action_edges, graphvars, runvars,
                         pc, via_async, dispatch>>

\* a Timer constructor: the element constructor calls register_action
NewTimer(n, c, offset, period) ==
  /\ Callable
  /\ c \in DOMAIN reactorObjs
  /\ phase # "Construction" \/ Len(timerObjs) < MaxTimers
  /\ IF validate_throws(element_ctor_allowed(phase)) THEN Throw
     ELSE IF validate_throws(register_element_allowed(phase)) THEN Throw
     ELSE IF ~insert_second(names_actions(c), n) THEN Abort
     ELSE /\ timerObjs' = Append(timerObjs,
                 [name |-> n, container |-> c, offset |-> offset,
                  period |-> period])
          /\ result' = "ok"
          /\ UNCHANGED <<phase, top_level_reactors, reactorObjs, reactionObjs,
                         portObjs, actionObjs, edges, graphvars, runvars, pc,
                         via_async, dispatch>>

\* a LogicalAction, PhysicalAction or ShutdownAction constructor: the element
\* constructor calls register_action
NewAction(n, c, kind) ==
  /\ Callable
  /\ c \in DOMAIN reactorObjs
  /\ phase # "Construction" \/ Len(actionObjs) < MaxActions
  /\ IF validate_throws(element_ctor_allowed(phase)) THEN Throw
     ELSE IF validate_throws(register_element_allowed(phase)) THEN Throw
     ELSE IF ~insert_second(names_actions(c), n) THEN Abort
     ELSE /\ actionObjs' = Append(actionObjs,
                 [name |-> n, container |-> c, kind |-> kind])
          /\ result' = "ok"
          /\ UNCHANGED <<phase, top_level_reactors, reactorObjs, reactionObjs,
                         portObjs, timerObjs, edges, graphvars, runvars, pc,
                         via_async, dispatch>>

\* Environment::assemble; the reactors' own assemble() bodies are the
\* declarations and bindings below, made while the phase is Assembly
assemble ==
  /\ Callable
  /\ IF validate_throws(assemble_allowed(phase)) THEN Throw
     ELSE /\ phase' = "Assembly"
          /\ result' = "ok"
          /\ UNCHANGED <<topology, edges, graphvars, runvars, pc, via_async, dispatch>>

\* ---------------------------------------------------------------- declarations
\* a containment rule that accepts every port
dependency_contained_any(r, p) == TRUE

\* the containment rule of declare_trigger(BasePort*) and declare_dependency
dependency_contained(r, p) ==
  IF portObjs[p].is_input
  THEN reactionObjs[r].container = portObjs[p].container
  ELSE reactionObjs[r].container = container_of_reactor(portObjs[p].container)

\* the containment rule of declare_antidependency
antidependency_contained(r, p) ==
  IF ~portObjs[p].is_input
  THEN reactionObjs[r].container = portObjs[p].container
  ELSE reactionObjs[r].container = container_of_reactor(portObjs[p].container)

\* BasePort::register_antidependency: the port records the reaction
register_antidependency(p, r) ==
  [p_antidependencies EXCEPT ![p] = @ \cup {r}]

\* Scheduler::schedule_sync: the event joins the queue
schedule_sync(queue, tag, action) ==
  queue \cup {[tag |-> tag, action |-> action]}

\* Reaction::declare_dependency, with BasePort::register_dependency
declare_dependency(r, p) ==
  /\ Callable
  /\ r \in DOMAIN reactionObjs /\ p \in DOMAIN portObjs
  /\ IF validate_throws(declare_allowed(phase)) THEN Throw
     ELSE IF validate_throws(dependency_contained(r, p)) THEN Throw
     ELSE IF p \in r_dependencies[r] THEN Abort
     ELSE /\ r_dependencies' = [r_dependencies EXCEPT ![r] = @ \cup {p}]
          /\ result' = "ok"
          /\ UNCHANGED <<phase, topology, inward_binding, r_port_triggers,
                         r_antidependencies, p_antidependencies, action_edges, graphvars,
                         runvars, pc, via_async, dispatch>>

\* Reaction::declare_trigger(BasePort*): the phase is asserted before it is
\* validated; the port joins _port_triggers and _dependencies
declare_trigger_port(r, p) ==
  /\ Callable
  /\ r \in DOMAIN reactionObjs /\ p \in DOMAIN portObjs
  /\ IF phase # "Assembly" THEN Abort
     ELSE IF validate_throws(declare_allowed(phase)) THEN Throw
     ELSE IF validate_throws(dependency_contained(r, p)) THEN Throw
     ELSE IF p \in r_port_triggers[r] \/ p \in r_dependencies[r] THEN Abort
     ELSE /\ r_port_triggers' = [r_port_triggers EXCEPT ![r] = @ \cup {p}]
          /\ r_dependencies' = [r_dependencies EXCEPT ![r] = @ \cup {p}]
          /\ result' = "ok"
          /\ UNCHANGED <<phase, topology, inward_binding, r_antidependencies,
                         p_antidependencies, action_edges, graphvars, runvars, pc, via_async, dispatch>>

\* Reaction::declare_antidependency, with BasePort::register_antidependency
declare_antidependency(r, p) ==
  /\ Callable
  /\ r \in DOMAIN reactionObjs /\ p \in DOMAIN portObjs
  /\ IF validate_throws(declare_allowed(phase)) THEN Throw
     ELSE IF validate_throws(antidependency_contained(r, p)) THEN Throw
     ELSE IF p \in r_antidependencies[r] THEN Abort
     ELSE /\ r_antidependencies' = [r_antidependencies EXCEPT ![r] = @ \cup {p}]
          /\ p_antidependencies' = register_antidependency(p, r)
          /\ result' = "ok"
          /\ UNCHANGED <<phase, topology, inward_binding, r_dependencies,
                         r_port_triggers, action_edges, graphvars, runvars,
                         pc, via_async, dispatch>>

\* the actions a reaction can name: the timers and the other actions
ActionRefs == DOMAIN timerObjs \cup {action_ref(a) : a \in DOMAIN actionObjs}

action_container(x) ==
  IF x \in DOMAIN timerObjs THEN timerObjs[x].container
  ELSE actionObjs[x - action_ref(0)].container

\* BaseAction::is_logical
is_logical(x) ==
  IF x \in DOMAIN timerObjs THEN FALSE
  ELSE actionObjs[x - action_ref(0)].kind = "logical"

\* Reaction::declare_trigger(BaseAction*), with BaseAction::register_trigger,
\* whose two validations repeat those of the caller
declare_trigger_action(r, x) ==
  /\ Callable
  /\ r \in DOMAIN reactionObjs /\ x \in ActionRefs
  /\ IF validate_throws(declare_allowed(phase)) THEN Throw
     ELSE IF validate_throws(reactionObjs[r].container = action_container(x))
     THEN Throw
     ELSE IF <<r, x>> \in r_action_triggers THEN Abort
     ELSE /\ r_action_triggers' = r_action_triggers \cup {<<r, x>>}
          /\ IF <<x, r>> \in a_triggers
             THEN result' = "abort" /\ UNCHANGED a_triggers
             ELSE result' = "ok" /\ a_triggers' = a_triggers \cup {<<x, r>>}
          /\ UNCHANGED <<phase, topology, inward_binding, r_dependencies,
                         r_port_triggers, r_antidependencies,
                         p_antidependencies, r_scheduable_actions,
                         a_schedulers, graphvars, runvars, pc, via_async,
                         dispatch>>

\* a scheduler registration that accepts every action
register_scheduler_throws_never(x) == FALSE

\* BaseAction::register_scheduler throws: the action is not logical (its
\* other two validations repeat those of the caller)
register_scheduler_throws(x) == validate_throws(is_logical(x))

\* Reaction::declare_schedulable_action: the action joins
\* _scheduable_actions, then BaseAction::register_scheduler validates it
declare_schedulable_action(r, x) ==
  /\ Callable
  /\ r \in DOMAIN reactionObjs /\ x \in ActionRefs
  /\ IF validate_throws(declare_allowed(phase)) THEN Throw
     ELSE IF validate_throws(reactionObjs[r].container = action_container(x))
     THEN Throw
     ELSE IF <<r, x>> \in r_scheduable_actions THEN Abort
     ELSE /\ r_scheduable_actions' = r_scheduable_actions \cup {<<r, x>>}
          /\ IF register_scheduler_throws(x)
             THEN result' = "ValidationError" /\ UNCHANGED a_schedulers
             ELSE IF <<x, r>> \in a_schedulers
             THEN result' = "abort" /\ UNCHANGED a_schedulers
             ELSE result' = "ok" /\ a_schedulers' = a_schedulers \cup {<<x, r>>}
          /\ UNCHANGED <<phase, topology, inward_binding, r_dependencies,
                         r_port_triggers, r_antidependencies,
                         p_antidependencies, r_action_triggers, a_triggers,
                         graphvars, runvars, pc, via_async, dispatch>>

\* the binding rules: an output binds into the input of a sibling or into an
\* output of the parent, an input binds into the input of a child
binding_allowed(s, d) ==
  LET S == portObjs[s]
      D == portObjs[d]
  IN \/ /\ ~S.is_input /\ D.is_input
        /\ S.container # D.container
        /\ container_of_reactor(S.container) = container_of_reactor(D.container)
     \/ /\ ~S.is_input /\ ~D.is_input
        /\ container_of_reactor(S.container) = D.container
     \/ /\ S.is_input /\ D.is_input
        /\ S.container = container_of_reactor(D.container)

\* BasePort::bind_to: port d gets s as its inward binding
bind_to(s, d) ==
  /\ Callable
  /\ s \in DOMAIN portObjs /\ d \in DOMAIN portObjs
  /\ IF validate_throws(declare_allowed(phase)) THEN Throw
     ELSE IF validate_throws(inward_binding[d] = 0) THEN Throw
     ELSE IF validate_throws(binding_allowed(s, d)) THEN Throw
     ELSE /\ inward_binding' = [inward_binding EXCEPT ![d] = s]
          /\ result' = "ok"
          /\ UNCHANGED <<phase, topology, r_dependencies, r_port_triggers,
                         r_antidependencies, p_antidependencies, action_edges, graphvars,
                         runvars, pc, via_async, dispatch>>

\* ---------------------------------------------------------------- dependency graph
\* the loop `while (source->has_inward_binding())` of build_dependency_graph
RECURSIVE source_of(_)
source_of(p) == IF inward_binding[p] # 0 THEN source_of(inward_binding[p])
                ELSE p

RECURSIVE Concat(_)
Concat(ss) == IF ss = <<>> THEN <<>> ELSE Head(ss) \o Concat(Tail(ss))

\* the pair with its two reactions exchanged
dependency_pair_swapped(r, ad) == <<ad, r>>

\* the pair pushed for reaction r and a reaction ad that writes its source
dependency_pair(r, ad) == <<r, ad>>

\* the pairs pushed for one dependency d of reaction r
edges_of_dependency(r, d) ==
  LET ads == SortedSeq(p_antidependencies[source_of(d)])
  IN [i \in DOMAIN ads |-> dependency_pair(r, ads[i])]

edges_of_reaction(r) ==
  LET ds == SortedSeq(r_dependencies[r])
  IN Concat([i \in DOMAIN ds |-> edges_of_dependency(r, ds[i])])

\* "connect all reactions this reaction depends on"
dependency_edges(c) ==
  LET rs == SortedSeq(reactions_of(c))
  IN Concat([i \in DOMAIN rs |-> edges_of_reaction(rs[i])])

\* the result of priority_map.emplace left unchecked
has_duplicate_priority_ignored(c) == FALSE

\* priority_map.emplace fails for some reaction of reactor c
has_duplicate_priority(c) ==
  \E a, b \in reactions_of(c) :
     a # b /\ reactionObjs[a].priority = reactionObjs[b].priority

\* the reactions inserted into Environment::reactions before validate throws
inserted_until_duplicate(c) ==
  LET rs == SortedSeq(reactions_of(c))
      dup(i) == \E j \in 1..(i - 1) :
                   reactionObjs[rs[j]].priority = reactionObjs[rs[i]].priority
      k == Min({i \in DOMAIN rs : dup(i)})
  IN {rs[j] : j \in 1..k}

\* the neighbours pushed in the order of the map
priority_pair_swapped(it, next) == <<it, next>>

\* the pair pushed for two neighbours it, next of the priority map
priority_pair(it, next) == <<next, it>>

\* "connect reactions by priority": neighbours of the ascending priority map
priority_edges(c) ==
  LET ps == SortedSeq({reactionObjs[r].priority : r \in reactions_of(c)})
      at(q) == CHOOSE r \in reactions_of(c) : reactionObjs[r].priority = q
  IN [i \in 1..(Len(ps) - 1) |-> priority_pair(at(ps[i]), at(ps[i + 1]))]

RECURSIVE build_dependency_graph(_, _)
RECURSIVE build_all(_, _)
\* the loops `for (auto r : ...) build_dependency_graph(r)`; an exception
\* ends them
build_all(rs, st) ==
  IF rs = <<>> \/ st.thrown THEN st
  ELSE build_all(Tail(rs), build_dependency_graph(Head(rs), st))

\* Environment::build_dependency_graph on the members reactions, dependencies
build_dependency_graph(c, st) ==
  LET s1 == build_all(SortedSeq(reactors_of(c)), st)
  IN IF s1.thrown THEN s1
     ELSE IF has_duplicate_priority(c)
     THEN [reactions |-> s1.reactions \cup inserted_until_duplicate(c),
           dependencies |-> s1.dependencies,
           thrown |-> TRUE]
     ELSE [reactions |-> s1.reactions \cup reactions_of(c),
           dependencies |-> s1.dependencies \o dependency_edges(c)
                              \o priority_edges(c),
           thrown |-> FALSE]

\* a map that files every pair under its second reaction
initial_graph_reversed(reacts, deps) ==
  [r \in reacts \cup {deps[i][2] : i \in DOMAIN deps} |->
     {deps[i][1] : i \in {j \in DOMAIN deps : deps[j][2] = r}}]

\* the map `graph` built at the head of calculate_indexes
initial_graph(reacts, deps) ==
  [r \in reacts \cup {deps[i][1] : i \in DOMAIN deps} |->
     {deps[i][2] : i \in {j \in DOMAIN deps : deps[j][1] = r}}]

\* the nodes no remaining node points to
degree_zero_sources(graph) ==
  {k \in DOMAIN graph : \A j \in DOMAIN graph : k \notin graph[j]}

\* the nodes that get the current index
degree_zero_of(graph) == {k \in DOMAIN graph : graph[k] = {}}

\* a reduction that erases the nodes but not the edges that lead to them
reduce_graph_keep_edges(graph, degree_zero) ==
  [k \in DOMAIN graph \ degree_zero |-> graph[k]]

\* "reduce graph"
reduce_graph(graph, degree_zero) ==
  [k \in DOMAIN graph \ degree_zero |-> graph[k] \ degree_zero]

\* the loop without its `index++`
RECURSIVE index_loop_same_level(_, _, _)
index_loop_same_level(graph, level, idx) ==
  IF DOMAIN graph = {} THEN [thrown |-> FALSE, index |-> idx, level |-> level]
  ELSE LET degree_zero == {k \in DOMAIN graph : graph[k] = {}}
       IN IF degree_zero = {}
          THEN [thrown |-> TRUE, index |-> idx, level |-> level]
          ELSE index_loop_same_level(
                 [k \in DOMAIN graph \ degree_zero |-> graph[k] \ degree_zero],
                 level,
                 [r \in DOMAIN idx |->
                    IF r \in degree_zero THEN level ELSE idx[r]])

\* the while loop of calculate_indexes; idx is Reaction::_index of every
\* reaction, level the local `index`
RECURSIVE index_loop(_, _, _)
index_loop(graph, level, idx) ==
  IF DOMAIN graph = {} THEN [thrown |-> FALSE, index |-> idx, level |-> level]
  ELSE LET degree_zero == degree_zero_of(graph)
       IN IF degree_zero = {}
          THEN [thrown |-> TRUE, index |-> idx, level |-> level]
          ELSE index_loop(reduce_graph(graph, degree_zero), level + 1,
                 [r \in DOMAIN idx |->
                    IF r \in degree_zero THEN level ELSE idx[r]])

\* `index - 1` on an unsigned 32-bit value, as <<high 16 bits, low 16 bits>>
unsigned_minus_one(level) ==
  IF level = 0 THEN <<65535, 65535>>
  ELSE <<(level - 1) \div 65536, (level - 1) % 65536>>

\* Reactor fqn and dot_name: the path of names from the top-level reactor;
\* the names of the model hold neither '.' nor '_'
RECURSIVE reactor_fqn(_)
reactor_fqn(c) == IF c = Env THEN <<>>
                  ELSE reactor_fqn(reactorObjs[c].container)
                         \o <<reactorObjs[c].name>>

dot_name(r) ==
  reactor_fqn(reactionObjs[r].container) \o <<reactionObjs[r].name>>

\* "add all the dependencies" of export_dependency_graph: one line each
export_dependency_graph(deps) ==
  [i \in DOMAIN deps |-> <<dot_name(deps[i][1]), dot_name(deps[i][2])>>]

\* ---------------------------------------------------------------- time
\* Tag::from_physical_time
from_physical_time(t) == <<t, 0>>

\* Tag::delay
delay(tag, d) == IF d > 0 THEN <<tag[1] + d, 0>> ELSE <<tag[1], tag[2] + 1>>

\* a timer that starts at the start tag whatever its offset
timer_startup_tag_no_offset(start, offset) == from_physical_time(start)

\* the tag Timer::startup hands to schedule_sync
timer_startup_tag(start, offset) ==
  LET t0 == from_physical_time(start)
  IN IF offset # 0 THEN delay(t0, offset) ELSE t0

\* Timer::startup of every timer of the sequence ts, on the queue q
RECURSIVE timers_startup(_, _)
timers_startup(ts, q) ==
  IF ts = <<>> THEN q
  ELSE timers_startup(Tail(ts),
         schedule_sync(q, timer_startup_tag(start_time, timerObjs[Head(ts)].offset),
                       Head(ts)))

\* a loop over the contained reactors that calls no startup()
reactors_startup_skipped(rs, q) == q

\* Reactor::startup of reactor c: the startup() of its actions, then of the
\* reactors it contains (ports and reactions schedule nothing)
RECURSIVE reactor_startup(_, _)
RECURSIVE reactors_startup(_, _)
reactors_startup(rs, q) ==
  IF rs = <<>> THEN q
  ELSE reactors_startup(Tail(rs), reactor_startup(Head(rs), q))

reactor_startup(c, q) ==
  reactors_startup(SortedSeq(reactors_of(c)),
                   timers_startup(SortedSeq(actions_of(c)), q))

\* the reactors whose hook runs, in the order of the recursion: a reactor,
\* then the reactors it contains
RECURSIVE hook_order(_)
hook_order(rs) ==
  IF rs = <<>> THEN <<>>
  ELSE <<Head(rs)>> \o hook_order(SortedSeq(reactors_of(Head(rs))))
         \o hook_order(Tail(rs))

\* Tag::from_logical_time: the tag the logical time stands at
from_logical_time(lt) == lt

\* a shutdown event at the current tag itself
shutdown_tag_now(lt) == from_logical_time(lt)

\* the tag ShutdownAction::shutdown hands to schedule_sync
shutdown_tag(lt) == delay(from_logical_time(lt), 0)

\* the shutdown() of the actions as of one reactor: a ShutdownAction
\* schedules itself, the other actions do nothing
RECURSIVE actions_shutdown(_, _)
actions_shutdown(as, q) ==
  IF as = <<>> THEN q
  ELSE actions_shutdown(Tail(as),
         IF actionObjs[Head(as)].kind = "shutdown"
         THEN schedule_sync(q, shutdown_tag(logical_time), action_ref(Head(as)))
         ELSE q)

\* Reactor::shutdown of reactor c: the shutdown() of its actions, then of the
\* reactors it contains
RECURSIVE reactor_shutdown(_, _)
RECURSIVE reactors_shutdown(_, _)
reactors_shutdown(rs, q) ==
  IF rs = <<>> THEN q
  ELSE reactors_shutdown(Tail(rs), reactor_shutdown(Head(rs), q))

reactor_shutdown(c, q) ==
  reactors_shutdown(SortedSeq(reactors_of(c)),
                    actions_shutdown(SortedSeq(other_actions_of(c)), q))

\* the schedule_sync calls of the shutdown actions of the reactors rs
RECURSIVE shutdown_calls(_)
shutdown_calls(rs) ==
  IF rs = <<>> THEN <<>>
  ELSE LET as == SortedSeq({a \in other_actions_of(Head(rs)) :
                              actionObjs[a].kind = "shutdown"})
       IN [i \in DOMAIN as |-> <<"schedule_sync", action_ref(as[i])>>]
            \o shutdown_calls(Tail(rs))

\* the log after the hooks of the reactors rs have run
logged(log, hook, rs) == log \o [i \in DOMAIN rs |-> <<hook, rs[i], phase>>]

\* ---------------------------------------------------------------- startup
\* vector growth the model follows
MaxVector == 6

\* Environment::startup up to the call of calculate_indexes
startup ==
  /\ Callable
  /\ IF validate_throws(startup_allowed(phase)) THEN Throw
     ELSE LET g == build_all(SortedSeq(top_level_reactors),
                     [reactions |-> reactions, dependencies |-> dependencies,
                      thrown |-> FALSE])
          IN /\ Len(g.dependencies) <= MaxVector
             /\ reactions' = g.reactions
             /\ dependencies' = g.dependencies
             /\ IF g.thrown
                THEN result' = "ValidationError" /\ pc' = pc
                ELSE result' = "none" /\ pc' = "calculate_indexes"
             /\ UNCHANGED <<phase, topology, edges, index, max_reaction_index,
                            dot_file, runvars, via_async, dispatch>>

\* an indexing that runs after the phase was set to Startup
calculate_indexes_in_startup ==
  /\ pc = "calculate_indexes"
  /\ LET c == index_loop(initial_graph(reactions, dependencies), 0, index)
     IN /\ index' = c.index
        /\ phase' = "Startup"
        /\ IF c.thrown
           THEN /\ dot_file' = export_dependency_graph(dependencies)
                /\ result' = "ValidationError"
                /\ pc' = "idle"
                /\ UNCHANGED max_reaction_index
           ELSE /\ max_reaction_index' = unsigned_minus_one(c.level)
                /\ pc' = "startup_time"
                /\ UNCHANGED <<dot_file, result>>
  /\ UNCHANGED <<topology, edges, reactions, dependencies, runvars,
                 via_async, dispatch>>

\* Environment::calculate_indexes
calculate_indexes ==
  /\ pc = "calculate_indexes"
  /\ LET c == index_loop(initial_graph(reactions, dependencies), 0, index)
     IN /\ index' = c.index
        /\ IF c.thrown
           THEN /\ dot_file' = export_dependency_graph(dependencies)
                /\ result' = "ValidationError"
                /\ pc' = "idle"
                /\ UNCHANGED max_reaction_index
           ELSE /\ max_reaction_index' = unsigned_minus_one(c.level)
                /\ pc' = "startup_phase"
                /\ UNCHANGED <<dot_file, result>>
  /\ UNCHANGED <<phase, topology, edges, reactions, dependencies, runvars,
                 via_async, dispatch>>

\* `_phase = Phase::Startup`
startup_phase ==
  /\ pc = "startup_phase"
  /\ phase' = "Startup"
  /\ pc' = "startup_time"
  /\ UNCHANGED <<topology, edges, graphvars, runvars, via_async, dispatch, result>>

\* `_start_time = get_physical_time()`
startup_time(now) ==
  /\ pc = "startup_time"
  /\ start_time' = now
  /\ pc' = "startup_hooks"
  /\ UNCHANGED <<phase, topology, edges, graphvars, event_queue, clock, threads, scheduler,
                 lock_held, via_async, dispatch, result>>

\* `for (auto r : _top_level_reactors) r->startup()`
startup_hooks ==
  /\ pc = "startup_hooks"
  /\ IF top_level_reactors # {} /\ phase # "Startup"
     THEN Abort
     ELSE /\ event_queue' = reactors_startup(SortedSeq(top_level_reactors),
                                             event_queue)
          /\ hook_log' = logged(hook_log, "startup",
                                hook_order(SortedSeq(top_level_reactors)))
          /\ pc' = "startup_execution"
          /\ UNCHANGED <<phase, topology, edges, graphvars, start_time,
                         scheduler, lock_held, logical_time, fire_log, threads,
                         via_async, dispatch, result>>

\* `_phase = Phase::Execution` and the thread that runs the scheduler
startup_execution ==
  /\ pc = "startup_execution"
  /\ phase' = "Execution"
  /\ scheduler' = "running"
  /\ pc' = "idle"
  /\ result' = "ok"
  /\ UNCHANGED <<topology, edges, graphvars, start_time, event_queue, clock, threads,
                 lock_held, via_async, dispatch>>

\* ---------------------------------------------------------------- shutdown
\* Environment::sync_shutdown up to `_phase = Phase::Shutdown`
sync_shutdown ==
  /\ Callable
  /\ IF validate_throws(sync_shutdown_allowed(phase)) THEN Throw
     ELSE /\ phase' = "Shutdown"
          /\ pc' = "shutdown_hooks"
          /\ result' = "none"
          /\ UNCHANGED <<topology, edges, graphvars, runvars, via_async, dispatch>>

\* Environment::async_shutdown: the lock, then sync_shutdown; an exception
\* of sync_shutdown leaves the function before the unlock
async_shutdown ==
  /\ Callable
  /\ ~lock_held
  /\ lock_held' = TRUE
  /\ IF validate_throws(sync_shutdown_allowed(phase))
     THEN /\ result' = "ValidationError"
          /\ UNCHANGED <<phase, pc, via_async>>
     ELSE /\ phase' = "Shutdown"
          /\ pc' = "shutdown_hooks"
          /\ via_async' = TRUE
          /\ result' = "none"
  /\ UNCHANGED <<topology, edges, graphvars, start_time, event_queue, clock, threads,
                 scheduler, dispatch>>

\* `for (auto r : _top_level_reactors) r->shutdown()`
shutdown_hooks ==
  /\ pc = "shutdown_hooks"
  /\ IF top_level_reactors # {} /\ phase # "Shutdown"
     THEN Abort
     ELSE /\ event_queue' = reactors_shutdown(SortedSeq(top_level_reactors),
                                              event_queue)
          /\ hook_log' = logged(hook_log, "shutdown",
                                hook_order(SortedSeq(top_level_reactors)))
          /\ shutdown_log' = shutdown_log
                 \o shutdown_calls(hook_order(SortedSeq(top_level_reactors)))
          /\ pc' = "shutdown_deconstruction"
          /\ UNCHANGED <<phase, topology, edges, graphvars, start_time,
                         scheduler, lock_held, logical_time, fire_log, tpc,
                         via_async, dispatch, result>>

\* `_phase = Phase::Deconstruction`
shutdown_deconstruction ==
  /\ pc = "shutdown_deconstruction"
  /\ phase' = "Deconstruction"
  /\ pc' = "shutdown_stop"
  /\ UNCHANGED <<topology, edges, graphvars, runvars, via_async, dispatch, result>>

\* `_scheduler.stop()` and the return of sync_shutdown
shutdown_stop ==
  /\ pc = "shutdown_stop"
  /\ scheduler' = "stopped"
  /\ IF via_async
     THEN pc' = "async_unlock" /\ result' = result
     ELSE pc' = "idle" /\ result' = "ok"
  /\ shutdown_log' = Append(shutdown_log, <<"stop", Env>>)
  /\ UNCHANGED <<phase, topology, edges, graphvars, start_time, event_queue,
                 clock, tpc, lock_held, via_async, dispatch>>

\* `_scheduler.unlock()` and the return of async_shutdown
async_unlock ==
  /\ pc = "async_unlock"
  /\ lock_held' = FALSE
  /\ via_async' = FALSE
  /\ pc' = "idle"
  /\ result' = "ok"
  /\ UNCHANGED <<phase, topology, edges, graphvars, start_time, event_queue,
                 clock, threads, scheduler, dispatch>>

\* ---------------------------------------------------------------- concurrent shutdown
\* the statements of sync_shutdown and async_shutdown as steps of the thread
\* th that runs them; a failed assertion ends the process
at(th, position) == result # "abort" /\ tpc[th] = position

goto(th, position) == tpc' = [tpc EXCEPT ![th] = position]

\* the worker enters Environment::sync_shutdown, from a reaction
worker_sync_shutdown ==
  /\ at(Worker, "idle")
  /\ goto(Worker, "validate")
  /\ UNCHANGED <<phase, topology, edges, graphvars, start_time, event_queue,
                 scheduler, lock_held, clock, shutdown_log, pc, via_async,
                 dispatch, result>>

\* Environment::async_shutdown on thread th: `_scheduler.lock()`, which
\* waits while the lock is held, then the call of sync_shutdown
thread_async_shutdown(th) ==
  /\ th # Worker
  /\ at(th, "idle")
  /\ ~lock_held
  /\ lock_held' = TRUE
  /\ goto(th, "validate")
  /\ UNCHANGED <<phase, topology, edges, graphvars, start_time, event_queue,
                 scheduler, clock, shutdown_log, pc, via_async, dispatch,
                 result>>

\* the validate of sync_shutdown; its exception leaves async_shutdown too
thread_validate(th) ==
  /\ at(th, "validate")
  /\ IF validate_throws(sync_shutdown_allowed(phase))
     THEN goto(th, "thrown")
     ELSE goto(th, "phase_shutdown")
  /\ UNCHANGED <<phase, topology, edges, graphvars, start_time, event_queue,
                 scheduler, lock_held, clock, shutdown_log, pc, via_async,
                 dispatch, result>>

\* `_phase = Phase::Shutdown`
thread_phase_shutdown(th) ==
  /\ at(th, "phase_shutdown")
  /\ phase' = "Shutdown"
  /\ goto(th, "hooks")
  /\ UNCHANGED <<topology, edges, graphvars, start_time, event_queue,
                 scheduler, lock_held, clock, shutdown_log, pc, via_async,
                 dispatch, result>>

\* `for (auto r : _top_level_reactors) r->shutdown()`
thread_shutdown_hooks(th) ==
  /\ at(th, "hooks")
  /\ IF top_level_reactors # {} /\ phase # "Shutdown"
     THEN /\ result' = "abort"
          /\ UNCHANGED <<event_queue, hook_log, shutdown_log, tpc>>
     ELSE /\ event_queue' = reactors_shutdown(SortedSeq(top_level_reactors),
                                              event_queue)
          /\ hook_log' = logged(hook_log, "shutdown",
                                hook_order(SortedSeq(top_level_reactors)))
          /\ shutdown_log' = shutdown_log
                 \o shutdown_calls(hook_order(SortedSeq(top_level_reactors)))
          /\ goto(th, "deconstruction")
          /\ UNCHANGED result
  /\ UNCHANGED <<phase, topology, edges, graphvars, start_time, scheduler,
                 lock_held, logical_time, fire_log, pc, via_async, dispatch>>

\* `_phase = Phase::Deconstruction`
thread_deconstruction(th) ==
  /\ at(th, "deconstruction")
  /\ phase' = "Deconstruction"
  /\ goto(th, "stop")
  /\ UNCHANGED <<topology, edges, graphvars, start_time, event_queue,
                 scheduler, lock_held, clock, shutdown_log, pc, via_async,
                 dispatch, result>>

\* `_scheduler.stop()` and the return of sync_shutdown
thread_stop(th) ==
  /\ at(th, "stop")
  /\ scheduler' = "stopped"
  /\ shutdown_log' = Append(shutdown_log, <<"stop", Env>>)
  /\ goto(th, IF th = Worker THEN "done" ELSE "unlock")
  /\ UNCHANGED <<phase, topology, edges, graphvars, start_time, event_queue,
                 lock_held, clock, pc, via_async, dispatch, result>>

\* `_scheduler.unlock()` and the return of async_shutdown
thread_unlock(th) ==
  /\ at(th, "unlock")
  /\ lock_held' = FALSE
  /\ goto(th, "done")
  /\ UNCHANGED <<phase, topology, edges, graphvars, start_time, event_queue,
                 scheduler, clock, shutdown_log, pc, via_async, dispatch,
                 result>>

\* ---------------------------------------------------------------- scheduler
\* the order of tags: by time point, then by microstep
tag_less(a, b) == a[1] < b[1] \/ (a[1] = b[1] /\ a[2] < b[2])

\* the minimum tag of a queue that is not empty
min_tag(q) == CHOOSE t \in {e.tag : e \in q} : \A e \in q : ~tag_less(e.tag, t)

\* a cleanup that schedules the timer again whatever its period
timer_cleanup_always(now, t, q) ==
  schedule_sync(q, delay(from_logical_time(now), timerObjs[t].period), t)

\* Timer::cleanup of timer t at the logical time now
timer_cleanup(now, t, q) ==
  IF timerObjs[t].period # 0
  THEN schedule_sync(q, delay(from_logical_time(now), timerObjs[t].period), t)
  ELSE q

\* the cleanup() of the actions fired at one tag; only timers schedule
RECURSIVE cleanups(_, _, _)
cleanups(now, as, q) ==
  IF as = <<>> THEN q
  ELSE cleanups(now, Tail(as),
         IF Head(as) \in DOMAIN timerObjs THEN timer_cleanup(now, Head(as), q)
         ELSE q)

\* one tick of the scheduler thread: the logical time advances to the minimum
\* tag of the queue, the actions of that tag fire and are then cleaned up
tick ==
  /\ Callable
  /\ scheduler = "running" /\ ~lock_held
  /\ event_queue # {}
  /\ LET t == min_tag(event_queue)
         fired == SortedSeq({e.action : e \in {x \in event_queue : x.tag = t}})
     IN /\ t[1] <= MaxLogicalTime
        /\ logical_time' = t
        /\ fire_log' = fire_log \o [i \in DOMAIN fired |->
                                      [tag |-> t, action |-> fired[i]]]
        /\ event_queue' = cleanups(t, fired,
                                   {x \in event_queue : x.tag # t})
  /\ UNCHANGED <<phase, topology, edges, graphvars, start_time, scheduler,
                 lock_held, hook_log, threads, pc, via_async, dispatch,
                 result>>

\* ---------------------------------------------------------------- deadlines
\* Reaction::has_deadline: a deadline has been set
has_deadline(r) == r \in DOMAIN deadline

deadline_of(r) == IF has_deadline(r) THEN deadline[r] ELSE NoDeadline

\* Reaction::set_deadline_impl
set_deadline(r, dl) ==
  /\ Callable
  /\ r \in DOMAIN reactionObjs
  /\ IF has_deadline(r) THEN Abort
     ELSE /\ deadline' = deadline @@ (r :> dl)
          /\ result' = "ok"
          /\ UNCHANGED <<phase, topology, edges, graphvars, runvars, run_log,
                         pc, via_async>>

\* a dispatch that falls through from the deadline handler into the body
trigger_runs_both(has, dl, physical, logical) ==
  LET lag == physical - logical
  IN IF has /\ lag > dl THEN [handler |-> 1, body |-> 1]
     ELSE [handler |-> 0, body |-> 1]

\* what one call of Reaction::trigger runs: the number of calls of the
\* deadline handler and of the body
trigger_runs(has, dl, physical, logical) ==
  LET lag == physical - logical
  IN IF has /\ lag > dl THEN [handler |-> 1, body |-> 0]
     ELSE [handler |-> 0, body |-> 1]

\* Reaction::trigger of reaction r, called by the scheduler while the
\* physical time is now
trigger(r, now) ==
  /\ Callable
  /\ phase = "Execution" /\ scheduler = "running"
  /\ r \in DOMAIN reactionObjs
  /\ Len(run_log) < MaxTriggers
  /\ run_log' = Append(run_log,
       [reaction |-> r, physical |-> now, logical |-> logical_time[1],
        deadline |-> deadline_of(r),
        runs |-> trigger_runs(has_deadline(r), deadline_of(r), now,
                              logical_time[1])])
  /\ UNCHANGED <<phase, topology, edges, graphvars, runvars, deadline, pc,
                 via_async, result>>

\* ---------------------------------------------------------------- specifications
Lifecycle ==
  \/ assemble
  \/ startup
  \/ calculate_indexes
  \/ startup_phase
  \/ \E now \in 0..MaxTime : startup_time(now)
  \/ startup_hooks
  \/ startup_execution
  \/ sync_shutdown
  \/ async_shutdown
  \/ shutdown_hooks
  \/ shutdown_deconstruction
  \/ shutdown_stop
  \/ async_unlock
  \/ \E r \in 1..MaxReactors : register_reactor(r)

\* programs of reactors, reactions and ports whose names are all distinct
Next ==
  \/ NewTopLevelReactor(reactor_name(Len(reactorObjs) + 1))
  \/ \E c \in 1..MaxReactors : NewNestedReactor(reactor_name(Len(reactorObjs) + 1), c)
  \/ \E c \in 1..MaxReactors, prio \in 1..MaxPriority :
        NewReaction(reaction_name(Len(reactionObjs) + 1), c, prio)
  \/ \E c \in 1..MaxReactors, is_input \in BOOLEAN :
        NewPort(port_name(Len(portObjs) + 1), c, is_input)
  \/ \E r \in 1..MaxReactions, p \in 1..MaxPorts : declare_dependency(r, p)
  \/ \E r \in 1..MaxReactions, p \in 1..MaxPorts : declare_trigger_port(r, p)
  \/ \E r \in 1..MaxReactions, p \in 1..MaxPorts : declare_antidependency(r, p)
  \/ \E s \in 1..MaxPorts, d \in 1..MaxPorts : bind_to(s, d)
  \/ Lifecycle

Spec == Init /\ [][Next]_vars

\* programs of reactors and timers, run through the lifecycle
NextTimer ==
  \/ NewTopLevelReactor(reactor_name(Len(reactorObjs) + 1))
  \/ \E c \in 1..MaxReactors : NewNestedReactor(reactor_name(Len(reactorObjs) + 1), c)
  \/ \E c \in 1..MaxReactors, offset \in 0..MaxOffset, period \in 0..MaxPeriod :
        NewTimer(timer_name(Len(timerObjs) + 1), c, offset, period)
  \/ Lifecycle

SpecTimer == Init /\ [][NextTimer]_vars

\* programs of reactors, reactions and timers, run through the lifecycle
NextStart ==
  \/ NextTimer
  \/ \E c \in 1..MaxReactors, prio \in 1..MaxPriority :
        NewReaction(reaction_name(Len(reactionObjs) + 1), c, prio)

SpecStart == Init /\ [][NextStart]_vars

\* programs of reactors, timers and shutdown actions, run by the scheduler
NextRun ==
  \/ NextTimer
  \/ \E c \in 1..MaxReactors :
        NewAction(action_name(Len(actionObjs) + 1), c, "shutdown")
  \/ tick

SpecRun == Init /\ [][NextRun]_vars

\* the construction of elements whose names are chosen freely
NamedElements == Len(reactorObjs) + Len(reactionObjs) + Len(portObjs)
                   + Len(timerObjs) + Len(actionObjs)

NextNames ==
  \/ \E n \in Names : NamedElements < MaxNamedElements /\ NewTopLevelReactor(n)
  \/ \E n \in Names, c \in 1..MaxReactors :
        NamedElements < MaxNamedElements /\ NewNestedReactor(n, c)
  \/ \E n \in Names, c \in 1..MaxReactors :
        NamedElements < MaxNamedElements /\ NewReaction(n, c, 1)
  \/ \E n \in Names, c \in 1..MaxReactors, is_input \in BOOLEAN :
        NamedElements < MaxNamedElements /\ NewPort(n, c, is_input)
  \/ \E n \in Names, c \in 1..MaxReactors :
        NamedElements < MaxNamedElements /\ NewTimer(n, c, 0, 0)
  \/ assemble

SpecNames == Init /\ [][NextNames]_vars

\* the declarations of reactions on the ports, timers and actions of
\* programs of at most MaxDeclElements elements
NextDeclare ==
  \/ NamedElements < MaxDeclElements
       /\ NewTopLevelReactor(reactor_name(Len(reactorObjs) + 1))
  \/ \E c \in 1..MaxReactors :
        NamedElements < MaxDeclElements
          /\ NewNestedReactor(reactor_name(Len(reactorObjs) + 1), c)
  \/ \E c \in 1..MaxReactors :
        NamedElements < MaxDeclElements
          /\ NewReaction(reaction_name(Len(reactionObjs) + 1), c,
                         Len(reactionObjs) + 1)
  \/ \E c \in 1..MaxReactors, is_input \in BOOLEAN :
        NamedElements < MaxDeclElements
          /\ NewPort(port_name(Len(portObjs) + 1), c, is_input)
  \/ \E c \in 1..MaxReactors :
        NamedElements < MaxDeclElements
          /\ NewTimer(timer_name(Len(timerObjs) + 1), c, 0, 0)
  \/ \E c \in 1..MaxReactors, kind \in {"logical", "physical"} :
        NamedElements < MaxDeclElements
          /\ NewAction(action_name(Len(actionObjs) + 1), c, kind)
  \/ assemble
  \/ \E r \in 1..MaxReactions, p \in 1..MaxPorts : declare_dependency(r, p)
  \/ \E r \in 1..MaxReactions, p \in 1..MaxPorts : declare_trigger_port(r, p)
  \/ \E r \in 1..MaxReactions, p \in 1..MaxPorts : declare_antidependency(r, p)
  \/ \E r \in 1..MaxReactions, x \in ActionRefs : declare_trigger_action(r, x)
  \/ \E r \in 1..MaxReactions, x \in ActionRefs :
        declare_schedulable_action(r, x)

SpecDeclare == Init /\ [][NextDeclare]_vars

\* calculate_indexes as a function of the members reactions and dependencies:
\* startup() stands before its call of calculate_indexes, with any vector of
\* at most MaxEdges pairs over at most MaxGraphReactions reactions
InitGraph ==
  \E n \in 0..MaxGraphReactions :
    /\ phase = "Assembly"
    /\ top_level_reactors = {1}
    /\ reactorObjs = <<[name |-> reactor_name(1), container |-> Env]>>
    /\ reactionObjs = [i \in 1..n |-> [name |-> reaction_name(i),
                                       container |-> 1, priority |-> i]]
    /\ portObjs = <<>>
    /\ timerObjs = <<>>
    /\ actionObjs = <<>>
    /\ inward_binding = <<>>
    /\ r_dependencies = [i \in 1..n |-> {}]
    /\ r_port_triggers = [i \in 1..n |-> {}]
    /\ r_antidependencies = [i \in 1..n |-> {}]
    /\ p_antidependencies = <<>>
    /\ r_action_triggers = {}
    /\ r_scheduable_actions = {}
    /\ a_triggers = {}
    /\ a_schedulers = {}
    /\ reactions = 1..n
    /\ dependencies \in UNION {[1..m -> (1..n) \X (1..n)] : m \in 0..MaxEdges}
    /\ index = [i \in 1..n |-> NoIndex]
    /\ max_reaction_index = <<0, 0>>
    /\ dot_file = NoFile
    /\ start_time = NoTime
    /\ event_queue = {}
    /\ scheduler = "new"
    /\ lock_held = FALSE
    /\ logical_time = <<0, 0>>
    /\ fire_log = <<>>
    /\ hook_log = <<>>
    /\ deadline = <<>>
    /\ run_log = <<>>
    /\ tpc = [th \in Threads |-> "idle"]
    /\ shutdown_log = <<>>
    /\ pc = "calculate_indexes"
    /\ via_async = FALSE
    /\ result = "none"

NextGraph == calculate_indexes

\* the shutdown calls of concurrent threads: an environment that executes a
\* chain of reactors with shutdown actions, after a successful startup()
InitShutdown ==
  \E n \in 1..MaxReactors :
    /\ phase = "Execution"
    /\ top_level_reactors = {1}
    /\ reactorObjs = [i \in 1..n |-> [name |-> reactor_name(i),
                                      container |-> i - 1]]
    /\ reactionObjs = <<>>
    /\ portObjs = <<>>
    /\ timerObjs = <<>>
    /\ \E m \in 0..MaxActions : \E cs \in [1..m -> 1..n] :
         actionObjs = [i \in 1..m |-> [name |-> action_name(i),
                                       container |-> cs[i],
                                       kind |-> "shutdown"]]
    /\ inward_binding = <<>>
    /\ r_dependencies = <<>>
    /\ r_port_triggers = <<>>
    /\ r_antidependencies = <<>>
    /\ p_antidependencies = <<>>
    /\ r_action_triggers = {}
    /\ r_scheduable_actions = {}
    /\ a_triggers = {}
    /\ a_schedulers = {}
    /\ reactions = {}
    /\ dependencies = <<>>
    /\ index = <<>>
    /\ max_reaction_index = unsigned_minus_one(0)
    /\ dot_file = NoFile
    /\ start_time = 0
    /\ event_queue = {}
    /\ scheduler = "running"
    /\ lock_held = FALSE
    /\ logical_time \in (0..MaxTime) \X {0}
    /\ fire_log = <<>>
    /\ hook_log = [i \in 1..n |-> <<"startup", i, "Startup">>]
    /\ deadline = <<>>
    /\ run_log = <<>>
    /\ tpc = [th \in Threads |-> "idle"]
    /\ shutdown_log = <<>>
    /\ pc = "idle"
    /\ via_async = FALSE
    /\ result = "ok"

NextShutdown ==
  \/ worker_sync_shutdown
  \/ \E th \in Threads : thread_async_shutdown(th)
  \/ \E th \in Threads : thread_validate(th)
  \/ \E th \in Threads : thread_phase_shutdown(th)
  \/ \E th \in Threads : thread_shutdown_hooks(th)
  \/ \E th \in Threads : thread_deconstruction(th)
  \/ \E th \in Threads : thread_stop(th)
  \/ \E th \in Threads : thread_unlock(th)

SpecShutdown == InitShutdown /\ [][NextShutdown]_vars

\* Reaction::trigger as a function of the deadline, the physical and the
\* logical time: an environment that executes one reactor with two reactions,
\* at any logical time
InitTrigger ==
  /\ phase = "Execution"
  /\ top_level_reactors = {1}
  /\ reactorObjs = <<[name |-> reactor_name(1), container |-> Env]>>
  /\ reactionObjs = [i \in 1..2 |-> [name |-> reaction_name(i),
                                     container |-> 1, priority |-> i]]
  /\ portObjs = <<>>
  /\ timerObjs = <<>>
  /\ actionObjs = <<>>
  /\ inward_binding = <<>>
  /\ r_dependencies = <<{}, {}>>
  /\ r_port_triggers = <<{}, {}>>
  /\ r_antidependencies = <<{}, {}>>
  /\ p_antidependencies = <<>>
  /\ r_action_triggers = {}
  /\ r_scheduable_actions = {}
  /\ a_triggers = {}
  /\ a_schedulers = {}
  /\ reactions = {1, 2}
  /\ dependencies = <<<<2, 1>>>>
  /\ index = <<0, 1>>
  /\ max_reaction_index = <<0, 1>>
  /\ dot_file = NoFile
  /\ start_time = 0
  /\ event_queue = {}
  /\ scheduler = "running"
  /\ lock_held = FALSE
  /\ logical_time \in (0..MaxLogicalTime) \X {0}
  /\ fire_log = <<>>
  /\ hook_log = <<<<"startup", 1, "Startup">>>>
  /\ deadline = <<>>
  /\ run_log = <<>>
  /\ tpc = [th \in Threads |-> "idle"]
  /\ shutdown_log = <<>>
  /\ pc = "idle"
  /\ via_async = FALSE
  /\ result = "ok"

NextTrigger ==
  \/ \E r \in 1..2, dl \in 1..MaxDeadline : set_deadline(r, dl)
  \/ \E r \in 1..2, now \in 0..MaxPhysicalTime : trigger(r, now)

SpecTrigger == InitTrigger /\ [][NextTrigger]_vars

SpecGraph == InitGraph /\ [][NextGraph]_vars

\* ---------------------------------------------------------------- properties
\* calculate_indexes has returned without throwing
IndexingSucceeded == pc = "startup_phase" \/ PhaseRank(phase) >= 3

\* the pairs of the dependency vector, and the pairs joined by a path of them
DependencyPairs == Range(dependencies)

RECURSIVE Closure(_, _)
Closure(R, k) ==
  IF k = 0 THEN R
  ELSE Closure(R \cup {<<q[1][1], q[2][2]>> :
                          q \in {x \in R \X R : x[1][2] = x[2][1]}}, k - 1)

DependencyPaths == Closure(DependencyPairs, Cardinality(reactions))

HasCycle == \E q \in DependencyPaths : q[1] = q[2]

\* C1: the phase only moves forward along Construction, Assembly, Startup,
\* Execution, Shutdown, Deconstruction over every sequence of Environment
\* calls, failed ones included, and Deconstruction is never left.
C1_PhaseMonotonic ==
  [][/\ PhaseRank(phase) <= PhaseRank(phase')
     /\ (phase = "Deconstruction" => phase' = "Deconstruction")]_vars

\* a call was rejected after the last phase had been reached
C1_Witness ==
  phase = "Deconstruction" /\ pc = "idle" /\ result = "ValidationError"

\* C2: register_reactor and assemble outside Construction, startup outside
\* Assembly and sync_shutdown outside Execution fail with ValidationError and
\* leave the phase as it was.
C2_WrongPhaseFails ==
  [][/\ (phase # "Construction" /\ assemble)
          => (result' = "ValidationError" /\ phase' = phase)
     /\ (phase # "Construction" /\ \E r \in 1..MaxReactors : register_reactor(r))
          => (result' = "ValidationError" /\ phase' = phase)
     /\ (phase # "Construction"
           /\ NewTopLevelReactor(reactor_name(Len(reactorObjs) + 1)))
          => (result' = "ValidationError" /\ phase' = phase)
     /\ (phase # "Assembly" /\ startup)
          => (result' = "ValidationError" /\ phase' = phase)
     /\ (phase # "Execution" /\ sync_shutdown)
          => (result' = "ValidationError" /\ phase' = phase)]_vars

\* a call was rejected while the environment executes, e.g. a second startup()
C2_Witness ==
  phase = "Execution" /\ pc = "idle" /\ result = "ValidationError"

\* C3 as stated: the first reaction of every pushed pair has the strictly
\* lower level.
C3_FirstOfPairLower ==
  IndexingSucceeded =>
    \A i \in DOMAIN dependencies :
       index[dependencies[i][1]] < index[dependencies[i][2]]

\* C3: for every pair (A, B) of the dependency vector, B, the reaction A
\* depends on, has the strictly lower level.
C3_SecondOfPairLower ==
  IndexingSucceeded =>
    \A i \in DOMAIN dependencies :
       /\ index[dependencies[i][2]] # NoIndex
       /\ index[dependencies[i][2]] < index[dependencies[i][1]]

\* indexing succeeded on a chain of two pairs
C3_Witness ==
  /\ IndexingSucceeded
  /\ \E i, j \in DOMAIN dependencies : dependencies[i][2] = dependencies[j][1]

\* C4: a reaction W with an antidependency on port S has a strictly lower
\* level than every reaction R with a dependency or port trigger on a port
\* whose inward-binding chain ends at S.
C4_WriterBeforeReader ==
  IndexingSucceeded =>
    \A W, R \in DOMAIN reactionObjs :
      \A S \in r_antidependencies[W] :
        \A P \in r_dependencies[R] \cup r_port_triggers[R] :
          source_of(P) = S => (index[W] # NoIndex /\ index[W] < index[R])

\* the environment executes with a writer and a reader joined by a binding,
\* and with a writer and a reader of one port
C4_Witness ==
  /\ phase = "Execution"
  /\ \E W, R \in DOMAIN reactionObjs :
       \E S \in r_antidependencies[W] :
         \E P \in r_dependencies[R] :
            (P # S /\ source_of(P) = S) \/ (P = S /\ P \in r_port_triggers[R])

\* C5 as stated: of two reactions of one reactor the one with the
\* numerically higher priority has the lower level.
C5_HigherPriorityFirst ==
  IndexingSucceeded =>
    \A a, b \in DOMAIN reactionObjs :
      (/\ reactionObjs[a].container = reactionObjs[b].container
       /\ reactionObjs[a].priority > reactionObjs[b].priority)
        => index[a] < index[b]

\* C5: of two reactions of one reactor the one with the numerically lower
\* priority has the strictly lower level, so it fires first.
C5_LowerPriorityFirst ==
  IndexingSucceeded =>
    \A a, b \in DOMAIN reactionObjs :
      (/\ reactionObjs[a].container = reactionObjs[b].container
       /\ reactionObjs[a].priority < reactionObjs[b].priority)
        => (index[a] # NoIndex /\ index[a] < index[b])

\* the environment executes a reactor with reactions of priority 1 and 2
C5_Witness ==
  /\ phase = "Execution"
  /\ \E a, b \in DOMAIN reactionObjs :
       /\ reactionObjs[a].container = reactionObjs[b].container
       /\ reactionObjs[a].priority = 1 /\ reactionObjs[b].priority = 2

\* C6: when the dependency vector holds a directed cycle, calculate_indexes
\* fails with ValidationError after writing one line per pair of the vector
\* to the report file; when it holds none, every reaction gets a level.
C6_CycleDetection ==
  (pc # "calculate_indexes") =>
    IF HasCycle
    THEN /\ result = "ValidationError" /\ pc = "idle" /\ phase = "Assembly"
         /\ dot_file # NoFile
         /\ Len(dot_file) = Len(dependencies)
         /\ \A i \in DOMAIN dependencies :
              dot_file[i] = <<<<reactor_name(1), reaction_name(dependencies[i][1])>>,
                              <<reactor_name(1), reaction_name(dependencies[i][2])>>>>
    ELSE /\ pc = "startup_phase" /\ result # "ValidationError"
         /\ dot_file = NoFile
         /\ \A r \in reactions : index[r] \in 0..(Cardinality(reactions) - 1)

\* a self-loop was rejected and reported, after some reaction got a level
C6_Witness ==
  /\ pc = "idle" /\ result = "ValidationError"
  /\ \E i \in DOMAIN dependencies : dependencies[i][1] = dependencies[i][2]
  /\ \E r \in reactions : index[r] # NoIndex
  /\ Len(dot_file) = MaxEdges

\* an acyclic vector was indexed
C6_WitnessAcyclic ==
  pc = "startup_phase" /\ Len(dependencies) = MaxEdges

\* C7 as stated: no container holds two elements with the same simple name.
C7_NamesUnique ==
  /\ \A a, b \in DOMAIN reactorObjs :
       (a # b /\ reactorObjs[a].container = reactorObjs[b].container)
         => reactorObjs[a].name # reactorObjs[b].name
  /\ \A c \in DOMAIN reactorObjs :
       LET held == [kind : {"reactor"}, id : reactors_of(c)]
                   \cup [kind : {"reaction"}, id : reactions_of(c)]
                   \cup [kind : {"port"}, id : inputs_of(c) \cup outputs_of(c)]
                   \cup [kind : {"action"}, id : actions_of(c)]
           name_of(e) == CASE e.kind = "reactor" -> reactorObjs[e.id].name
                           [] e.kind = "reaction" -> reactionObjs[e.id].name
                           [] e.kind = "port" -> portObjs[e.id].name
                           [] e.kind = "action" -> timerObjs[e.id].name
       IN \A e, f \in held : e # f => name_of(e) # name_of(f)

\* C8: a reactor with two reactions of one priority makes startup() throw
\* ValidationError in the Assembly phase, so the phase never gets past
\* Assembly; reactions of different reactors may share a priority.
DuplicatePriority ==
  \E a, b \in DOMAIN reactionObjs :
     /\ a # b
     /\ reactionObjs[a].container = reactionObjs[b].container
     /\ reactionObjs[a].priority = reactionObjs[b].priority

C8_UniquePriority ==
  /\ [](DuplicatePriority => (PhaseRank(phase) <= 2 /\ pc = "idle"))
  /\ [][(DuplicatePriority /\ phase = "Assembly" /\ startup)
          => (result' = "ValidationError" /\ phase' = "Assembly")]_vars

\* the environment executes two reactions of different reactors that share
\* a priority
C8_Witness ==
  /\ phase = "Execution"
  /\ \E a, b \in DOMAIN reactionObjs :
       /\ reactionObjs[a].container # reactionObjs[b].container
       /\ reactionObjs[a].priority = reactionObjs[b].priority

\* startup() threw on a duplicate priority
C8_WitnessRejected ==
  DuplicatePriority /\ phase = "Assembly" /\ reactions # {}
    /\ result = "ValidationError"

\* C9: after indexing succeeded no two reactions joined by a path of
\* dependency pairs have the same level.
C9_SameLevelIndependent ==
  IndexingSucceeded =>
    \A q \in DependencyPaths : index[q[1]] # index[q[2]]

\* indexing succeeded with two reactions joined by a path only, and with two
\* reactions on one level
C9_Witness ==
  /\ IndexingSucceeded
  /\ \E q \in DependencyPaths : q \notin DependencyPairs
  /\ \E a, b \in reactions : a # b /\ index[a] = index[b]

\* C10 as stated: the first event of every timer is at start_tag.delay(offset).
C10_FirstEventAtDelay ==
  (pc = "startup_execution") =>
    \A t \in DOMAIN timerObjs :
       [tag |-> delay(<<start_time, 0>>, timerObjs[t].offset), action |-> t]
          \in event_queue

\* C10: startup() enqueues one event per timer: at (start_time + offset, 0)
\* for an offset above 0 and at the start tag (start_time, 0) itself for the
\* offset 0.
C10_FirstEvent ==
  (pc = "startup_execution") =>
    event_queue =
      {[tag |-> IF timerObjs[t].offset > 0
                THEN <<start_time + timerObjs[t].offset, 0>>
                ELSE <<start_time, 0>>,
        action |-> t] : t \in DOMAIN timerObjs}

\* the startup hooks ran with a timer of offset 0 and one of a positive offset
C10_Witness ==
  /\ pc = "startup_execution"
  /\ \E t, u \in DOMAIN timerObjs :
       timerObjs[t].offset = 0 /\ timerObjs[u].offset > 0
  /\ Cardinality(event_queue) = 2

\* the tags at which the scheduler has fired timer t, in order
RECURSIVE firings_in(_, _)
firings_in(log, t) ==
  IF log = <<>> THEN <<>>
  ELSE (IF Head(log).action = t THEN <<Head(log).tag>> ELSE <<>>)
         \o firings_in(Tail(log), t)

HooksDone == pc = "startup_execution" \/ PhaseRank(phase) >= 4

\* C11: a timer with offset o and period p > 0 fires at the tags
\* (start + o + k*p, 0), k = 0, 1, 2, ..., once each and in this order: when
\* the logical time has reached T it has fired once for every such time up to
\* T and its one next event waits at the following time; a timer with period
\* 0 fires once, at (start + o, 0), and is never enqueued again.
C11_TimerCadence ==
  \A t \in DOMAIN timerObjs :
    LET o == timerObjs[t].offset
        p == timerObjs[t].period
        tags == firings_in(fire_log, t)
        n == Len(tags)
        pending == {e.tag : e \in {x \in event_queue : x.action = t}}
    IN /\ \A k \in DOMAIN tags : tags[k] = <<start_time + o + (k - 1) * p, 0>>
       /\ p = 0 => n <= 1
       /\ HooksDone =>
            pending = IF n = 0 THEN {<<start_time + o, 0>>}
                      ELSE IF p > 0 THEN {<<start_time + o + n * p, 0>>}
                      ELSE {}
       /\ fire_log # <<>> =>
            /\ \A g \in pending : tag_less(logical_time, g)
            /\ (p > 0 /\ logical_time[1] >= start_time + o)
                  => n = (logical_time[1] - start_time - o) \div p + 1

\* a timer with offset 0 and period 1 has fired four times when three and a
\* half periods have passed, next to a timer of period 0 that fired once
C11_Witness ==
  /\ logical_time[1] = start_time + 3
  /\ \E t, u \in DOMAIN timerObjs :
       /\ timerObjs[t].offset = 0 /\ timerObjs[t].period = 1
       /\ Len(firings_in(fire_log, t)) = 4
       /\ timerObjs[u].period = 0
       /\ Len(firings_in(fire_log, u)) = 1
       /\ \A e \in event_queue : e.action # u

\* C12: every call of Reaction::trigger runs exactly one of the body and the
\* deadline handler; it runs the handler if and only if the reaction has a
\* deadline and physical time - logical time is strictly above it.
C12_DeadlineDispatch ==
  \A i \in DOMAIN run_log :
    LET e == run_log[i]
        missed == e.deadline # NoDeadline /\ e.physical - e.logical > e.deadline
    IN /\ e.runs.handler + e.runs.body = 1
       /\ e.runs.handler = 1 <=> missed

\* the handler ran on a missed deadline, the body ran with a lag equal to the
\* deadline and the body ran late without a deadline
C12_Witness ==
  \E i, j, k \in DOMAIN run_log :
    /\ run_log[i].runs.handler = 1
    /\ run_log[j].deadline # NoDeadline /\ run_log[j].runs.body = 1
    /\ run_log[j].physical - run_log[j].logical = run_log[j].deadline
    /\ run_log[k].deadline = NoDeadline /\ run_log[k].runs.body = 1
    /\ run_log[k].physical - run_log[k].logical > MaxDeadline

\* the reactors whose shutdown hook has run, in order
RECURSIVE hooks_in(_, _)
hooks_in(log, hook) ==
  IF log = <<>> THEN <<>>
  ELSE (IF Head(log)[1] = hook THEN <<Head(log)[2]>> ELSE <<>>)
         \o hooks_in(Tail(log), hook)

ShutdownActions == {a \in DOMAIN actionObjs : actionObjs[a].kind = "shutdown"}

\* every reactor's shutdown hook has run once and every shutdown action
\* waits at the microstep successor of the logical time
ShutdownHooksDone ==
  /\ Len(hooks_in(hook_log, "shutdown")) = Len(reactorObjs)
  /\ Range(hooks_in(hook_log, "shutdown")) = DOMAIN reactorObjs
  /\ \A a \in ShutdownActions :
       {e.tag : e \in {x \in event_queue : x.action = action_ref(a)}}
         = {<<logical_time[1], logical_time[2] + 1>>}

\* C13: sync_shutdown() in Execution sets the phase to Shutdown, then runs
\* the shutdown hook of every reactor, each shutdown action enqueueing itself
\* at (time_point, microstep + 1) of the logical tag, then sets the phase to
\* Deconstruction and only then stops the scheduler; every shutdown hook runs
\* in the phase Shutdown and the scheduler stops after all hooks.
C13_ShutdownSequence ==
  /\ [](/\ \A i \in DOMAIN hook_log :
             hook_log[i][1] = "shutdown" => hook_log[i][3] = "Shutdown"
        /\ phase = "Shutdown" =>
             /\ scheduler = "running"
             /\ pc = "shutdown_hooks" => hooks_in(hook_log, "shutdown") = <<>>
             /\ pc # "shutdown_hooks" =>
                  (pc = "shutdown_deconstruction" /\ ShutdownHooksDone)
        /\ phase = "Deconstruction" => ShutdownHooksDone
        /\ scheduler = "stopped" => phase = "Deconstruction")
  /\ [][/\ (phase # "Shutdown" /\ phase' = "Shutdown")
            => (phase = "Execution" /\ pc' = "shutdown_hooks"
                 /\ UNCHANGED <<hook_log, event_queue, scheduler>>)
        /\ (hook_log' # hook_log /\ PhaseRank(phase) >= 4)
            => (phase = "Shutdown" /\ phase' = "Shutdown"
                 /\ scheduler' = "running")
        /\ (phase # "Deconstruction" /\ phase' = "Deconstruction")
            => (phase = "Shutdown" /\ ShutdownHooksDone
                 /\ scheduler' = "running")
        /\ (scheduler = "running" /\ scheduler' = "stopped")
            => (phase = "Deconstruction" /\ UNCHANGED event_queue)]_vars

\* the scheduler was stopped after ticks, with the shutdown action of a
\* nested reactor enqueued
C13_Witness ==
  /\ scheduler = "stopped" /\ pc = "idle" /\ ~via_async
  /\ logical_time[1] > 0
  /\ \E a \in ShutdownActions :
       /\ reactorObjs[actionObjs[a].container].container # Env
       /\ \E e \in event_queue : e.action = action_ref(a)

\* the graph is built and every reaction has its level
IndexesDone ==
  /\ reactions = DOMAIN reactionObjs
  /\ \A r \in DOMAIN reactionObjs : index[r] # NoIndex

\* every reactor's startup hook has run once, after start_time was captured,
\* and every timer has enqueued its first event at or after the start tag
StartupHooksDone ==
  /\ Len(hooks_in(hook_log, "startup")) = Len(reactorObjs)
  /\ Range(hooks_in(hook_log, "startup")) = DOMAIN reactorObjs
  /\ start_time # NoTime
  /\ \A t \in DOMAIN timerObjs :
       \E e \in event_queue : e.action = t /\ e.tag[1] >= start_time

\* the steps of startup() on whose order the code and its description agree:
\* graph and levels first, then the hooks in the phase Startup with the start
\* time captured, then Execution and the scheduler thread
StartupOrder ==
  /\ [](/\ PhaseRank(phase) >= 3 => IndexesDone
        /\ (hook_log # <<>> \/ event_queue # {}) => PhaseRank(phase) >= 3
        /\ \A i \in DOMAIN hook_log :
             hook_log[i][1] = "startup" => hook_log[i][3] = "Startup"
        /\ PhaseRank(phase) >= 4 => StartupHooksDone
        /\ scheduler # "new" => PhaseRank(phase) >= 4)
  /\ [][/\ (phase # "Startup" /\ phase' = "Startup")
            => (pc = "startup_phase" /\ phase = "Assembly" /\ IndexesDone)
        /\ (hook_log = <<>> /\ hook_log' # <<>>)
            => (phase = "Startup" /\ start_time # NoTime /\ event_queue = {}
                 /\ UNCHANGED start_time)
        /\ (phase # "Execution" /\ phase' = "Execution")
            => (phase = "Startup" /\ StartupHooksDone /\ scheduler = "new"
                 /\ UNCHANGED <<hook_log, event_queue, start_time>>)]_vars

\* C14 as stated: start_time is captured before the phase becomes Startup.
C14_StartTimeBeforeStartup ==
  /\ StartupOrder
  /\ [][(phase # "Startup" /\ phase' = "Startup")
          => (start_time # NoTime /\ UNCHANGED start_time)]_vars

\* C14: a successful startup() builds the graph, computes the levels, sets
\* the phase to Startup, then captures start_time, runs every reactor's
\* startup hook, sets the phase to Execution and starts the scheduler
\* thread: start_time is captured in the phase Startup, before any hook runs
\* and before any timer enqueues its first event, and the scheduler starts
\* after every hook.
C14_StartupSequence ==
  /\ StartupOrder
  /\ [](start_time # NoTime => PhaseRank(phase) >= 3)
  /\ [][/\ (phase # "Startup" /\ phase' = "Startup")
            => (start_time = NoTime /\ UNCHANGED start_time)
        /\ (start_time' # start_time)
            => (phase = "Startup" /\ phase' = "Startup" /\ hook_log = <<>>
                 /\ start_time = NoTime
                 /\ UNCHANGED <<hook_log, event_queue, scheduler>>)]_vars

\* startup() succeeded on nested reactors with a reaction and a timer
C14_Witness ==
  /\ phase = "Execution" /\ pc = "idle" /\ scheduler = "running"
  /\ \E c \in DOMAIN reactorObjs :
       /\ reactorObjs[c].container # Env
       /\ actions_of(c) # {} /\ reactions_of(c) # {}

C16_OnlyLogicalSchedulable ==
  \A r \in DOMAIN reactionObjs, x \in ActionRefs :
     <<r, x>> \in r_scheduable_actions => is_logical(x)

\* C17 as stated: after a successful startup() _max_reaction_index is the
\* largest level assigned to a reaction, and with no reaction at all the
\* unsigned counter has not wrapped around.
C17_MaxReactionIndex ==
  IndexingSucceeded =>
    IF reactions # {}
    THEN /\ max_reaction_index[1] = 0
         /\ \E r \in reactions : index[r] = max_reaction_index[2]
         /\ \A r \in reactions : index[r] <= max_reaction_index[2]
    ELSE max_reaction_index # unsigned_minus_one(0)

Max(S) == CHOOSE x \in S : \A y \in S : y <= x

\* the length of the longest path of pairs that starts at reaction r, in a
\* graph without cycles
RECURSIVE LongestPath(_)
LongestPath(r) ==
  LET next == {q[2] : q \in {x \in DependencyPairs : x[1] = r}}
  IN IF next = {} THEN 0 ELSE 1 + Max({LongestPath(s) : s \in next})

\* C18: for every dependency vector without a cycle calculate_indexes gives
\* each reaction the length of the longest path of pairs starting at it (0
\* without an outgoing pair), a function of the set of pairs alone whatever
\* their order in the vector, and every level from 0 to the maximum is used.
C18_LevelIsLongestPath ==
  (pc # "calculate_indexes" /\ ~HasCycle) =>
    /\ \A r \in reactions : index[r] = LongestPath(r)
    /\ \A r \in reactions : \A l \in 0..index[r] :
         \E s \in reactions : index[s] = l

\* a reaction was indexed two levels above a reaction it points to directly,
\* from a vector that lists the pairs of the longer path last
C18_Witness ==
  /\ pc = "startup_phase"
  /\ \E i, j, k \in DOMAIN dependencies :
       /\ i < j /\ j < k
       /\ dependencies[i][1] = dependencies[k][1]
       /\ dependencies[k][2] = dependencies[j][1]
       /\ dependencies[j][2] = dependencies[i][2]
       /\ index[dependencies[i][1]] = index[dependencies[i][2]] + 2

\* C19: a startup() that fails in the phase Assembly, on a duplicate
\* priority or on a dependency cycle, leaves the phase Assembly: start_time
\* is not captured, no startup hook has run, no event is enqueued and the
\* scheduler thread is not started.
C19_FailedStartupNoEffect ==
  /\ [](phase = "Assembly" =>
          (start_time = NoTime /\ hook_log = <<>> /\ event_queue = {}
            /\ scheduler = "new"))
  /\ [][(phase = "Assembly" /\ (startup \/ calculate_indexes)
           /\ result' = "ValidationError")
          => (phase' = "Assembly" /\ pc' = "idle"
               /\ UNCHANGED <<start_time, hook_log, event_queue, scheduler>>)]_vars

\* startup() has failed on a cycle whose vector holds a pair more than once,
\* as after an earlier failed startup()
C19_Witness ==
  /\ phase = "Assembly" /\ pc = "idle" /\ result = "ValidationError"
  /\ dot_file # NoFile
  /\ Len(dependencies) > Cardinality(DependencyPairs)

\* C20 as stated: every call of async_shutdown() has released the
\* scheduler's queue lock when control leaves it, also when the inner
\* sync_shutdown() was rejected, so the lock is free between calls.
C20_LockReleased == pc = "idle" => ~lock_held

\* the number of entries of a log that satisfy a test
RECURSIVE count_in(_, _)
count_in(log, e) ==
  IF log = <<>> THEN 0
  ELSE (IF Head(log) = e THEN 1 ELSE 0) + count_in(Tail(log), e)

\* every thread that entered a shutdown call has left it
ShutdownCallsReturned ==
  /\ \A th \in Threads : tpc[th] \in {"idle", "done", "thrown"}
  /\ \E th \in Threads : tpc[th] = "done"

\* C21 as stated: for every interleaving of a sync_shutdown() of the worker
\* with async_shutdown() calls of other threads during Execution, every
\* reactor's shutdown hook runs once, every shutdown action is enqueued once
\* and the scheduler is stopped once.
C21_ShutdownOnce ==
  /\ result # "abort"
  /\ \A r \in DOMAIN reactorObjs :
       count_in(hook_log, <<"shutdown", r, "Shutdown">>)
         + count_in(hook_log, <<"shutdown", r, "Deconstruction">>) <= 1
  /\ \A a \in ShutdownActions :
       count_in(shutdown_log, <<"schedule_sync", action_ref(a)>>) <= 1
  /\ count_in(shutdown_log, <<"stop", Env>>) <= 1
  /\ ShutdownCallsReturned =>
       /\ \A r \in DOMAIN reactorObjs :
            count_in(hook_log, <<"shutdown", r, "Shutdown">>) = 1
       /\ \A a \in ShutdownActions :
            count_in(shutdown_log, <<"schedule_sync", action_ref(a)>>) = 1
       /\ count_in(shutdown_log, <<"stop", Env>>) = 1

\* a reaction and an action agree on the edges between them
TwoSided ==
  \A r \in DOMAIN reactionObjs, x \in ActionRefs :
    /\ <<r, x>> \in r_action_triggers <=> <<x, r>> \in a_triggers
    /\ <<r, x>> \in r_scheduable_actions <=> <<x, r>> \in a_schedulers

\* C22 as stated: a declare_trigger, declare_schedulable_action,
\* declare_dependency or declare_antidependency call that fails with
\* ValidationError leaves the edge sets of the reaction and of the action or
\* port unchanged, and after any sequence of successful and failed
\* declarations a reaction is in an action's trigger (scheduler) set exactly
\* if the action is in the reaction's action-trigger (schedulable-action) set.
C22_AtomicTwoSided ==
  /\ [][\A r \in DOMAIN reactionObjs :
         /\ \A x \in ActionRefs :
              ((declare_trigger_action(r, x) \/ declare_schedulable_action(r, x))
                 /\ result' = "ValidationError") => UNCHANGED edges
         /\ \A q \in DOMAIN portObjs :
              ((declare_trigger_port(r, q) \/ declare_dependency(r, q)
                  \/ declare_antidependency(r, q))
                 /\ result' = "ValidationError") => UNCHANGED edges]_vars
  /\ []TwoSided

====
